---- MODULE Spec2Model ----
\* Word-row tables, NlpAlgorithm, NlpAnalyzer, PyMorphAnalyzer and
\* NlpAnalyzationPipeline of grammar_ru, as a state machine: one caller's
\* table, one constructed object, and the calls the caller can make on it.
EXTENDS Integers, Sequences, FiniteSets, TLC

\* ---------------------------------------------------------------- bounds
MaxRows == 2
MaxOut == 2
MaxAnalyzers == 2

\* ----------------------------------------------------------------- tables
\* validations.WordCoordinates: the coordinate columns of a word-row table.
WordCoordinates == {"word_id", "sentence_id", "paragraph_id"}

\* The columns a caller's table may carry besides check_requested.
InputColumns == WordCoordinates \cup {"word"}

\* pandas' missing value in a joined column.
Null == 0

\* Python's None as a returned value, and the absence of a returned value
\* (the call raised).
NoneVal == [kind |-> "None"]
NoReturn == [kind |-> "NoReturn"]

\* The paragraph ids in play: two tell a member of a set from a non-member.
ParagraphIds == {1, 2}

\* paragraphs_to_check: None is <<>>, a set S of paragraph ids is <<S>>.
None == <<>>
ParagraphSets == {None} \cup {<<S>> : S \in SUBSET ParagraphIds}

\* A table: the object it is (obj), its index, its columns and its rows; a
\* row maps every column of the table to the cell's value.
DataFrame(obj, index, cols, rows) ==
    [kind |-> "DataFrame", obj |-> obj, index |-> index, cols |-> cols, rows |-> rows]

\* One word row: word ids are unique and number the rows.
WordRow(cols, i, par) ==
    [c \in cols |-> CASE c = "word_id" -> i
                      [] c = "sentence_id" -> 1
                      [] c = "paragraph_id" -> par
                      [] OTHER -> "w"]

RangeIndex(n) == [i \in 1..n |-> i]

\* The word-row tables a caller can hold: any subset of the input columns,
\* up to MaxRows rows, the paragraphs in document order.
Tables ==
    { DataFrame("caller", RangeIndex(n), cols,
                [i \in 1..n |-> WordRow(cols, i, pars[i])]) :
        <<cols, n, pars>> \in
            { <<cs, k, p>> \in (SUBSET InputColumns) \X (0..MaxRows) \X [1..MaxRows -> ParagraphIds] :
                /\ \A j \in 1..MaxRows : (j > k \/ "paragraph_id" \notin cs) => p[j] = 1
                /\ \A j \in 1..(MaxRows - 1) : p[j] <= p[j + 1] \/ j >= k } }

\* df[c] = vals: the column is added or overwritten in place.
SetColumn(df, c, vals) ==
    [df EXCEPT !.cols = @ \cup {c},
               !.rows = [i \in 1..Len(df.rows) |->
                            [k \in df.cols \cup {c} |->
                                IF k = c THEN vals[i] ELSE df.rows[i][k]]]]

\* validations.ensure_df_contains: every required column is a column of df.
ensure_df_contains(required, df) == required \subseteq df.cols

\* ------------------------------------------------------------- variables
VARIABLES
    df,       \* the caller's table
    self,     \* the object the caller constructed
    pre,      \* the caller's table as it was when the last call began
    op,       \* the last call made
    arg,      \* the last call's paragraphs_to_check
    outcome,  \* "ok", or the exception the last call raised
    ret,      \* the value the last call returned
    trace,    \* the steps the last call performed, in order
    seen      \* the table handed to the inner step in the last call

vars == <<df, self, pre, op, arg, outcome, ret, trace, seen>>

NoTable == [kind |-> "NoTable"]

\* What a call did: how it ended, the caller's table afterwards, the value
\* returned, the steps performed, the table the inner step received.
Result(o, d, r, t, s) ==
    [outcome |-> o, df |-> d, ret |-> r, trace |-> t, seen |-> s]

\* ---------------------------------------------------------- NlpAlgorithm
\* NlpAlgorithm.__init__; inner tells whether _run_inner is overridden.
NlpAlgorithm(required_columns, inner) ==
    [class |-> "NlpAlgorithm", status_column |-> "status", suggest_column |-> NoneVal,
     required_columns |-> required_columns, inner |-> inner]

Algorithms ==
    { NlpAlgorithm(rc, inner) : rc \in SUBSET {"word"}, inner \in {"abstract", "overridden"} }

put_check_requested_and(d, paragraphs_to_check) ==
    IF paragraphs_to_check = None
    THEN Result("ok", SetColumn(d, "check_requested", [i \in 1..Len(d.rows) |-> TRUE]),
                SetColumn(d, "check_requested", [i \in 1..Len(d.rows) |-> TRUE]),
                <<"put_check_requested">>, NoTable)
    ELSE IF "paragraph_id" \notin d.cols
    THEN Result("AttributeError", d, NoReturn, <<"put_check_requested">>, NoTable)
    ELSE LET vals == [i \in 1..Len(d.rows) |->
                         /\ d.rows[i]["paragraph_id"] \in paragraphs_to_check[1]
                         /\ ("check_requested" \in d.cols => d.rows[i]["check_requested"])]
             new == SetColumn(d, "check_requested", vals)
         IN Result("ok", new, new, <<"put_check_requested">>, NoTable)

put_check_requested_falsy(d, paragraphs_to_check) ==
    IF paragraphs_to_check = None \/ paragraphs_to_check = <<{}>>
    THEN Result("ok", SetColumn(d, "check_requested", [i \in 1..Len(d.rows) |-> TRUE]),
                SetColumn(d, "check_requested", [i \in 1..Len(d.rows) |-> TRUE]),
                <<"put_check_requested">>, NoTable)
    ELSE IF "paragraph_id" \notin d.cols
    THEN Result("AttributeError", d, NoReturn, <<"put_check_requested">>, NoTable)
    ELSE LET vals == [i \in 1..Len(d.rows) |->
                         d.rows[i]["paragraph_id"] \in paragraphs_to_check[1]]
             new == SetColumn(d, "check_requested", vals)
         IN Result("ok", new, new, <<"put_check_requested">>, NoTable)

\* NlpAlgorithm.put_check_requested: the column is written on d itself and d
\* is returned; d.paragraph_id raises AttributeError when d has no such column.
put_check_requested(d, paragraphs_to_check) ==
    IF paragraphs_to_check = None
    THEN LET new == SetColumn(d, "check_requested", [i \in 1..Len(d.rows) |-> TRUE])
         IN Result("ok", new, new, <<"put_check_requested">>, NoTable)
    ELSE IF "paragraph_id" \notin d.cols
    THEN Result("AttributeError", d, NoReturn, <<"put_check_requested">>, NoTable)
    ELSE LET vals == [i \in 1..Len(d.rows) |->
                         d.rows[i]["paragraph_id"] \in paragraphs_to_check[1]]
             new == SetColumn(d, "check_requested", vals)
         IN Result("ok", new, new, <<"put_check_requested">>, NoTable)

\* NlpAlgorithm.validate_input
algorithm_validate_input(alg, d) ==
    ensure_df_contains(WordCoordinates \cup {"check_requested"} \cup alg.required_columns, d)

\* NlpAlgorithm._run_inner: raises.
base_run_inner(alg, d) ==
    Result("NotImplementedError", d, NoReturn, <<"_run_inner">>, d)

\* A subclass's _run_inner: writes the status column onto the table it was
\* given and returns nothing.
overridden_run_inner(alg, d) ==
    Result("ok",
           SetColumn(d, alg.status_column,
                     [i \in 1..Len(d.rows) |-> d.rows[i]["check_requested"]]),
           NoneVal, <<"_run_inner">>, d)

\* self._run_inner(df), by the object's class.
run_inner(alg, d) ==
    IF alg.inner = "abstract" THEN base_run_inner(alg, d) ELSE overridden_run_inner(alg, d)

run_unvalidated(alg, d) ==
    LET p == put_check_requested(d, None)
        r == run_inner(alg, p.df)
    IN IF r.outcome # "ok"
       THEN Result(r.outcome, r.df, NoReturn, p.trace \o r.trace, r.seen)
       ELSE IF ~algorithm_validate_input(alg, r.df)
       THEN Result("ValidationError", r.df, NoReturn,
                   p.trace \o r.trace \o <<"validate_input">>, r.seen)
       ELSE Result("ok", r.df, NoneVal, p.trace \o r.trace \o <<"validate_input">>, r.seen)

\* NlpAlgorithm.run: put_check_requested(df) with no paragraphs_to_check,
\* validate_input(df), _run_inner(df); returns nothing.
run(alg, d) ==
    LET p == put_check_requested(d, None)
    IN IF ~algorithm_validate_input(alg, p.df)
       THEN Result("ValidationError", p.df, NoReturn,
                   p.trace \o <<"validate_input">>, NoTable)
       ELSE LET r == run_inner(alg, p.df)
            IN Result(r.outcome, r.df, r.ret,
                      p.trace \o <<"validate_input">> \o r.trace, r.seen)

RECURSIVE WordsUpTo(_, _)
WordsUpTo(text, k) == IF k = 0 THEN 0 ELSE text[k] + WordsUpTo(text, k - 1)

\* The texts run_on_text is given: a list of lines, each a number of words;
\* here every line is one word and there is at most one line per paragraph id.
Texts == { [i \in 1..k |-> 1] : k \in 0..Cardinality(ParagraphIds) }

\* The strings run_on_string is given: a number of words.
Strings == 1..MaxRows

\* Separator.separate_paragraphs: one row per word with its coordinates, the
\* paragraph id being the number of the line the word is in.
separate_paragraphs(text) ==
    LET n == WordsUpTo(text, Len(text))
        par(i) == CHOOSE p \in 1..Len(text) :
                      WordsUpTo(text, p - 1) < i /\ i <= WordsUpTo(text, p)
    IN DataFrame("separator", RangeIndex(n), InputColumns,
                 [i \in 1..n |-> WordRow(InputColumns, i, par(i))])

\* Separator.separate_string: the string is one paragraph.
separate_string(s) == separate_paragraphs(<<s>>)

\* NlpAlgorithm.run_on_text: the table is built from the text, run, and
\* returned; the caller's own table d is not involved.
run_on_text(alg, d, text, paragraphs_to_check) ==
    LET r == run(alg, separate_paragraphs(text))
    IN Result(r.outcome, d, IF r.outcome = "ok" THEN r.df ELSE NoReturn, r.trace, r.seen)

\* NlpAlgorithm.run_on_string
run_on_string(alg, d, s, paragraphs_to_check) ==
    LET r == run(alg, separate_string(s))
    IN Result(r.outcome, d, IF r.outcome = "ok" THEN r.df ELSE NoReturn, r.trace, r.seen)

\* ----------------------------------------------------------- NlpAnalyzer
\* The columns an overridden _analyze_inner may derive.
DerivedColumns == {"X", "Y", "word"}

\* NlpAnalyzer.__init__; inner tells which _analyze_inner the object has
\* and, for an override that derives a column, the table it returns.
NlpAnalyzer(join_by_columns, required_columns, inner, out) ==
    [class |-> "NlpAnalyzer", join_by |-> join_by_columns,
     required_columns |-> required_columns, inner |-> inner, out |-> out]

\* PyMorphAnalyzer.__init__
PyMorphAnalyzer == NlpAnalyzer(<<"word_id">>, {}, "PyMorphAnalyzer", NoTable)

\* The tables an overridden _analyze_inner returns: one derived column, the
\* rows indexed by join key values; row j holds the value j.
OutTable(col, keys) ==
    DataFrame("inner", keys, {col}, [j \in 1..Len(keys) |-> [c \in {col} |-> j]])

OutTables ==
    { OutTable(col, keys) :
        col \in DerivedColumns,
        keys \in UNION { [1..k -> 1..MaxRows] : k \in 0..MaxOut } }

Analyzers ==
    {PyMorphAnalyzer}
    \cup { NlpAnalyzer(<<"word_id">>, rc, "abstract", NoTable) : rc \in SUBSET {"word"} }
    \cup { NlpAnalyzer(<<"word_id">>, rc, "overridden", out) :
             rc \in SUBSET {"word"}, out \in OutTables }

\* NlpAnalyzer.validate_input
analyzer_validate_input(an, d) ==
    ensure_df_contains(WordCoordinates \cup an.required_columns, d)

base_analyze_inner_none(an, d) ==
    Result("ok", d, NoneVal, <<"_analyze_inner">>, d)

\* NlpAnalyzer._analyze_inner: raises.
base_analyze_inner(an, d) ==
    Result("NotImplementedError", d, NoReturn, <<"_analyze_inner">>, d)

\* PyMorphAnalyzer._analyze_inner: `pass`, so None is returned.
pymorph_analyze_inner(an, d) ==
    Result("ok", d, NoneVal, <<"_analyze_inner">>, d)

\* A subclass's _analyze_inner: returns its table of derived columns and
\* leaves the table it was given alone.
overridden_analyze_inner(an, d) ==
    Result("ok", d, an.out, <<"_analyze_inner">>, d)

\* self._analyze_inner(df), by the object's class.
analyze_inner(an, d) ==
    IF an.inner = "abstract" THEN base_analyze_inner(an, d)
    ELSE IF an.inner = "PyMorphAnalyzer" THEN pymorph_analyze_inner(an, d)
    ELSE overridden_analyze_inner(an, d)

analyze_unvalidated(an, d) ==
    LET r == analyze_inner(an, d)
    IN IF r.outcome # "ok"
       THEN r
       ELSE IF ~analyzer_validate_input(an, d)
       THEN Result("ValidationError", d, NoReturn, r.trace \o <<"validate_input">>, r.seen)
       ELSE Result("ok", d, r.ret, r.trace \o <<"validate_input">>, r.seen)

\* NlpAnalyzer.analyze
analyze(an, d) ==
    IF ~analyzer_validate_input(an, d)
    THEN Result("ValidationError", d, NoReturn, <<"validate_input">>, NoTable)
    ELSE LET r == analyze_inner(an, d)
         IN Result(r.outcome, r.df, r.ret, <<"validate_input">> \o r.trace, r.seen)

\* The rows of other whose index is key, in other's order.
Matches(other, key) == { j \in 1..Len(other.index) : other.index[j] = key }

Least(S) == CHOOSE x \in S : \A y \in S : x <= y

RECURSIVE InOrder(_)
InOrder(S) == IF S = {} THEN <<>> ELSE <<Least(S)>> \o InOrder(S \ {Least(S)})

\* The pairs <<i, j>> of a left join: every left row i, once per matching
\* right row j, or once with j = 0 when no right row matches.
RECURSIVE LeftJoinPairs(_, _, _, _)
LeftJoinPairs(d, other, on, i) ==
    IF i > Len(d.rows)
    THEN <<>>
    ELSE LET m == InOrder(Matches(other, d.rows[i][on]))
         IN (IF m = <<>> THEN << <<i, 0>> >> ELSE [k \in 1..Len(m) |-> <<i, m[k]>>])
            \o LeftJoinPairs(d, other, on, i + 1)

RECURSIVE InnerJoinPairs(_, _, _, _)
InnerJoinPairs(d, other, on, i) ==
    IF i > Len(d.rows)
    THEN <<>>
    ELSE LET m == InOrder(Matches(other, d.rows[i][on]))
         IN [k \in 1..Len(m) |-> <<i, m[k]>>] \o InnerJoinPairs(d, other, on, i + 1)

JoinedTable(d, other, pairs) ==
    DataFrame("join",
              [k \in 1..Len(pairs) |-> d.index[pairs[k][1]]],
              d.cols \cup other.cols,
              [k \in 1..Len(pairs) |->
                  [c \in d.cols \cup other.cols |->
                      IF c \in d.cols THEN d.rows[pairs[k][1]][c]
                      ELSE IF pairs[k][2] = 0 THEN Null
                      ELSE other.rows[pairs[k][2]][c]]])

join_inner(d, other, on) ==
    IF other.kind # "DataFrame"
    THEN Result("ValueError", d, NoReturn, <<"join">>, NoTable)
    ELSE IF on \notin d.cols
    THEN Result("KeyError", d, NoReturn, <<"join">>, NoTable)
    ELSE IF d.cols \cap other.cols # {}
    THEN Result("ValueError", d, NoReturn, <<"join">>, NoTable)
    ELSE Result("ok", d, JoinedTable(d, other, InnerJoinPairs(d, other, on, 1)),
                <<"join">>, NoTable)

\* pandas' df.join(other, on=...): a left join of other's index on d's
\* column, as a new table; ValueError when other is no table or shares a
\* column name with d, KeyError when d has no such column.
join(d, other, on) ==
    IF other.kind # "DataFrame"
    THEN Result("ValueError", d, NoReturn, <<"join">>, NoTable)
    ELSE IF on \notin d.cols
    THEN Result("KeyError", d, NoReturn, <<"join">>, NoTable)
    ELSE IF d.cols \cap other.cols # {}
    THEN Result("ValueError", d, NoReturn, <<"join">>, NoTable)
    ELSE Result("ok", d, JoinedTable(d, other, LeftJoinPairs(d, other, on, 1)),
                <<"join">>, NoTable)

\* NlpAnalyzer.apply
apply(an, d) ==
    LET a == analyze(an, d)
    IN IF a.outcome # "ok"
       THEN a
       ELSE LET j == join(a.df, a.ret, an.join_by[1])
            IN Result(j.outcome, j.df, j.ret, a.trace \o j.trace, a.seen)

\* ------------------------------------------------ NlpAnalyzationPipeline
Names == {"a", "b"}

\* The analyzers put in pipelines.
PipelineAnalyzers ==
    { PyMorphAnalyzer,
      NlpAnalyzer(<<"word_id">>, {}, "abstract", NoTable),
      NlpAnalyzer(<<"word_id">>, {}, "overridden", OutTable("X", <<1>>)),
      NlpAnalyzer(<<"word_id">>, {"word"}, "overridden", OutTable("Y", <<2, 1>>)) }

\* NlpAnalyzationPipeline.__init__: a list of (name, analyzer) pairs, kept
\* as given.
NlpAnalyzationPipeline(analyzers) ==
    [class |-> "NlpAnalyzationPipeline", analyzers |-> analyzers]

Pipelines ==
    { NlpAnalyzationPipeline(l) :
        l \in UNION { [1..k -> Names \X PipelineAnalyzers] : k \in 0..MaxAnalyzers } }

\* results[name] = value on a dict.
SetItem(results, name, value) ==
    [n \in DOMAIN results \cup {name} |-> IF n = name THEN value ELSE results[n]]

TableList(l) == [kind |-> "list", items |-> l]

RECURSIVE analyze_dataframe_chained(_, _, _, _, _)
analyze_dataframe_chained(analyzers, i, d, results, given) ==
    IF i > Len(analyzers)
    THEN Result("ok", d, [kind |-> "dict", items |-> results],
                [k \in 1..Len(analyzers) |-> analyzers[k][1]], TableList(given))
    ELSE LET r == apply(analyzers[i][2], d)
         IN IF r.outcome # "ok"
            THEN Result(r.outcome, r.df, NoReturn,
                        [k \in 1..i |-> analyzers[k][1]], TableList(Append(given, d)))
            ELSE analyze_dataframe_chained(analyzers, i + 1, r.ret,
                     SetItem(results, analyzers[i][1], r.ret), Append(given, d))

RECURSIVE analyze_dataframe_first(_, _, _, _, _)
analyze_dataframe_first(analyzers, i, d, results, given) ==
    IF i > Len(analyzers)
    THEN Result("ok", d, [kind |-> "dict", items |-> results],
                [k \in 1..Len(analyzers) |-> analyzers[k][1]], TableList(given))
    ELSE LET r == apply(analyzers[i][2], d)
         IN IF r.outcome # "ok"
            THEN Result(r.outcome, r.df, NoReturn,
                        [k \in 1..i |-> analyzers[k][1]], TableList(Append(given, d)))
            ELSE analyze_dataframe_first(analyzers, i + 1, r.df,
                     IF analyzers[i][1] \in DOMAIN results THEN results
                     ELSE SetItem(results, analyzers[i][1], r.ret), Append(given, d))

\* The loop of NlpAnalyzationPipeline.analyze_dataframe from its i-th pair:
\* results[name] = analyzer.apply(df), every apply on the same df; given
\* lists the tables handed to apply so far.
RECURSIVE analyze_dataframe_loop(_, _, _, _, _)
analyze_dataframe_loop(analyzers, i, d, results, given) ==
    IF i > Len(analyzers)
    THEN Result("ok", d, [kind |-> "dict", items |-> results],
                [k \in 1..Len(analyzers) |-> analyzers[k][1]], TableList(given))
    ELSE LET r == apply(analyzers[i][2], d)
         IN IF r.outcome # "ok"
            THEN Result(r.outcome, r.df, NoReturn,
                        [k \in 1..i |-> analyzers[k][1]], TableList(Append(given, d)))
            ELSE analyze_dataframe_loop(analyzers, i + 1, r.df,
                     SetItem(results, analyzers[i][1], r.ret), Append(given, d))

\* NlpAnalyzationPipeline.analyze_dataframe
analyze_dataframe(pipeline, d) ==
    analyze_dataframe_loop(pipeline.analyzers, 1, d, <<>>, <<>>)

\* ------------------------------------------------------------ the calls
\* The caller holds a word-row table and has constructed an algorithm, an
\* analyzer or a pipeline; nothing has been called yet.
Init ==
    /\ df \in Tables
    /\ self \in Algorithms \cup Analyzers \cup Pipelines
    /\ pre = df
    /\ op = "none"
    /\ arg = None
    /\ outcome = "ok"
    /\ ret = NoReturn
    /\ trace = <<>>
    /\ seen = NoTable

\* The state after a call named name with paragraphs_to_check a that did r.
Called(name, a, r) ==
    /\ pre' = df
    /\ df' = r.df
    /\ op' = name
    /\ arg' = a
    /\ outcome' = r.outcome
    /\ ret' = r.ret
    /\ trace' = r.trace
    /\ seen' = r.seen
    /\ UNCHANGED self

PutCheckRequested ==
    /\ self.class = "NlpAlgorithm"
    /\ \E S \in ParagraphSets :
          Called("put_check_requested", S, put_check_requested(df, S))

Run ==
    /\ self.class = "NlpAlgorithm"
    /\ Called("run", None, run(self, df))

RunOnText ==
    /\ self.class = "NlpAlgorithm"
    /\ \E text \in Texts, S \in ParagraphSets :
          Called("run_on_text", S, run_on_text(self, df, text, S))

RunOnString ==
    /\ self.class = "NlpAlgorithm"
    /\ \E s \in Strings, S \in ParagraphSets :
          Called("run_on_string", S, run_on_string(self, df, s, S))

Analyze ==
    /\ self.class = "NlpAnalyzer"
    /\ Called("analyze", None, analyze(self, df))

Apply ==
    /\ self.class = "NlpAnalyzer"
    /\ Called("apply", None, apply(self, df))

AnalyzeDataframe ==
    /\ self.class = "NlpAnalyzationPipeline"
    /\ Called("analyze_dataframe", None, analyze_dataframe(self, df))

Next ==
    \/ PutCheckRequested
    \/ Run
    \/ RunOnText
    \/ RunOnString
    \/ Analyze
    \/ Apply
    \/ AnalyzeDataframe

Spec == Init /\ [][Next]_vars

\* ------------------------------------------------------------ properties
AllTrue(d) == [i \in 1..Len(d.rows) |-> TRUE]

\* d without column c.
DropColumn(d, c) ==
    [d EXCEPT !.cols = @ \ {c},
              !.rows = [i \in 1..Len(d.rows) |-> [k \in d.cols \ {c} |-> d.rows[i][k]]]]

\* The names of a pipeline's pairs, and whether they are pairwise distinct.
PairNames(l) == { l[k][1] : k \in 1..Len(l) }
DistinctNames(l) == \A j, k \in 1..Len(l) : l[j][1] = l[k][1] => j = k

\* The last pair of l that carries name n.
LastWithName(l, n) ==
    CHOOSE k \in 1..Len(l) : l[k][1] = n /\ \A j \in (k + 1)..Len(l) : l[j][1] # n

Reverse(l) == [k \in 1..Len(l) |-> l[Len(l) + 1 - k]]

\* The table lacks a coordinate column or a column the object declares.
LacksRequired(obj, d) == ~ensure_df_contains(WordCoordinates \cup obj.required_columns, d)

\* C1: put_check_requested with no paragraphs_to_check marks every row true;
\* with a set S it marks a row true exactly when the row's paragraph id is in
\* S; and it returns the table it was given, not a copy.
C1_PutCheckRequested ==
    (op = "put_check_requested" /\ (arg = None \/ "paragraph_id" \in pre.cols)) =>
        /\ outcome = "ok"
        /\ ret = df
        /\ ret.obj = pre.obj
        /\ "check_requested" \in df.cols
        /\ Len(df.rows) = Len(pre.rows)
        /\ \A i \in 1..Len(df.rows) :
              df.rows[i]["check_requested"]
                  = (arg = None \/ pre.rows[i]["paragraph_id"] \in arg[1])

\* C1 witness: paragraph_id = [1, 1] with S = {2} gave [FALSE, FALSE].
C1_Witness ==
    /\ op = "put_check_requested"
    /\ arg = <<{2}>>
    /\ outcome = "ok"
    /\ Len(pre.rows) = 2
    /\ \A i \in 1..2 :
          pre.rows[i]["paragraph_id"] = 1 /\ df.rows[i]["check_requested"] = FALSE

\* C2 as stated: a run, analyze or apply on a table lacking a required
\* column fails with the validation error and leaves the caller's table
\* exactly as it was.
C2_Original ==
    (op \in {"run", "analyze", "apply"} /\ LacksRequired(self, pre)) =>
        outcome = "ValidationError" /\ df = pre

\* C2 amended: such a call fails with the validation error before the inner
\* step is invoked; analyze and apply leave the table exactly as it was, and
\* run leaves it as it was except for check_requested, set true on every row.
C2_FailsBeforeInner ==
    (op \in {"run", "analyze", "apply"} /\ LacksRequired(self, pre)) =>
        /\ outcome = "ValidationError"
        /\ ret = NoReturn
        /\ seen = NoTable
        /\ op # "run" => df = pre
        /\ op = "run" => df = SetColumn(pre, "check_requested", AllTrue(pre))

\* C2 witness: a run failed validation on a table that had no
\* check_requested column, and the table now has one.
C2_Witness ==
    /\ op = "run"
    /\ outcome = "ValidationError"
    /\ Len(pre.rows) > 0
    /\ "check_requested" \notin pre.cols
    /\ "check_requested" \in df.cols

\* C3: run performs put_check_requested, validate_input, run-inner in that
\* order, and analyze performs validate_input, then analyze-inner; the inner
\* step is invoked only on a table that passed validation, and not at all in
\* a call that fails validation.
C3_Order ==
    /\ op \in {"run", "run_on_text", "run_on_string"} =>
          /\ trace \in { <<"put_check_requested", "validate_input">>,
                         <<"put_check_requested", "validate_input", "_run_inner">> }
          /\ (Len(trace) = 3) = (seen # NoTable)
          /\ outcome = "ValidationError" => seen = NoTable
          /\ seen # NoTable =>
                (WordCoordinates \cup {"check_requested"} \cup self.required_columns)
                    \subseteq seen.cols
    /\ op \in {"analyze", "apply"} =>
          /\ \E n \in 1..3 :
                trace = SubSeq(<<"validate_input", "_analyze_inner", "join">>, 1, n)
          /\ (Len(trace) >= 2) = (seen # NoTable)
          /\ outcome = "ValidationError" => seen = NoTable
          /\ seen # NoTable =>
                (WordCoordinates \cup self.required_columns) \subseteq seen.cols

\* C3 witness: a run that got through all three steps.
C3_Witness ==
    /\ op = "run"
    /\ outcome = "ok"
    /\ trace = <<"put_check_requested", "validate_input", "_run_inner">>
    /\ Len(seen.rows) > 0

\* The result of apply has the input's rows, each once and in order, every
\* input column with its values, plus the derived columns, null where the
\* row's join key is not in the analyzer's output.
RowsPreserved ==
    /\ outcome = "ok"
    /\ ret.kind = "DataFrame"
    /\ ret.cols = pre.cols \cup self.out.cols
    /\ Len(ret.rows) = Len(pre.rows)
    /\ ret.index = pre.index
    /\ \A i \in 1..Len(pre.rows) :
          /\ \A c \in pre.cols : ret.rows[i][c] = pre.rows[i][c]
          /\ \A c \in self.out.cols \ pre.cols :
                IF \E j \in 1..Len(self.out.index) :
                       self.out.index[j] = pre.rows[i][self.join_by[1]]
                THEN \E j \in 1..Len(self.out.index) :
                       /\ self.out.index[j] = pre.rows[i][self.join_by[1]]
                       /\ ret.rows[i][c] = self.out.rows[j][c]
                ELSE ret.rows[i][c] = Null

\* At most one row of the analyzer's output per join key.
UniqueKeys(t) == \A j, k \in 1..Len(t.index) : t.index[j] = t.index[k] => j = k

\* C4 as stated: apply on a valid table preserves the rows and columns
\* whatever table the analyze-inner step returns.
C4_Original ==
    (op = "apply" /\ self.inner = "overridden" /\ ~LacksRequired(self, pre)) =>
        RowsPreserved

\* C4 amended: apply on a valid table preserves the rows and columns when
\* the table the analyze-inner step returns has at most one row per join key
\* and no column named like a column of the input.
C4_ApplyPreservesRows ==
    (/\ op = "apply"
     /\ self.inner = "overridden"
     /\ ~LacksRequired(self, pre)
     /\ UniqueKeys(self.out)
     /\ self.out.cols \cap pre.cols = {}) =>
        RowsPreserved

\* C4 witness: an apply whose result has a row with a joined value and a row
\* with null in the joined column.
C4_Witness ==
    /\ op = "apply"
    /\ outcome = "ok"
    /\ self.out.cols = {"X"}
    /\ Len(ret.rows) = 2
    /\ ret.rows[1]["X"] # Null
    /\ ret.rows[2]["X"] = Null

\* C5 as stated: analyze_dataframe on N pairs returns exactly N entries.
C5_Original ==
    (op = "analyze_dataframe" /\ outcome = "ok") =>
        Cardinality(DOMAIN ret.items) = Len(self.analyzers)

\* C5 amended: analyze_dataframe returns one entry per distinct supplied
\* name, so exactly N when the N names are pairwise distinct, and the entry
\* for a name is the output of the last analyzer paired with that name.
C5_EntryPerName ==
    (op = "analyze_dataframe" /\ outcome = "ok") =>
        /\ ret.kind = "dict"
        /\ DOMAIN ret.items = PairNames(self.analyzers)
        /\ DistinctNames(self.analyzers) =>
              Cardinality(DOMAIN ret.items) = Len(self.analyzers)
        /\ \A n \in PairNames(self.analyzers) :
              ret.items[n]
                  = apply(self.analyzers[LastWithName(self.analyzers, n)][2], pre).ret

\* C5 witness: a pipeline of two pairs with different names returned two
\* entries.
C5_Witness ==
    /\ op = "analyze_dataframe"
    /\ outcome = "ok"
    /\ Len(self.analyzers) = 2
    /\ DOMAIN ret.items = {"a", "b"}
    /\ ret.items["a"] # ret.items["b"]

\* C6: every apply of analyze_dataframe receives the caller's table as it
\* was passed, without the columns earlier analyzers derived; the caller's
\* table is left as it was, and with distinct names the result is the same
\* for the list in reverse order.
C6_Independent ==
    op = "analyze_dataframe" =>
        /\ df = pre
        /\ \A k \in 1..Len(seen.items) : seen.items[k] = pre
        /\ outcome = "ok" =>
              /\ Len(seen.items) = Len(self.analyzers)
              /\ \A k \in 1..Len(self.analyzers) :
                    LET r == apply(self.analyzers[k][2], pre)
                    IN r.outcome = "ok" /\ r.ret.cols = pre.cols \cup self.analyzers[k][2].out.cols
              /\ DistinctNames(self.analyzers) =>
                    /\ \A k \in 1..Len(self.analyzers) :
                          ret.items[self.analyzers[k][1]].cols
                              = pre.cols \cup self.analyzers[k][2].out.cols
                    /\ analyze_dataframe(NlpAnalyzationPipeline(Reverse(self.analyzers)), pre).ret
                          = ret

\* C6 witness: two analyzers deriving different columns ran, and the second
\* one's entry has no column of the first.
C6_Witness ==
    /\ op = "analyze_dataframe"
    /\ outcome = "ok"
    /\ Len(self.analyzers) = 2
    /\ self.analyzers[1][1] = "a"
    /\ self.analyzers[2][1] = "b"
    /\ self.analyzers[1][2].out.cols = {"X"}
    /\ self.analyzers[2][2].out.cols = {"Y"}
    /\ Len(pre.rows) > 0
    /\ "X" \notin ret.items["b"].cols

\* C7 as stated: the table run_on_text and run_on_string hand to the
\* run-inner step has check_requested true exactly for the rows whose
\* paragraph id is in the supplied set, and for every row when none is
\* supplied.
C7_Claim ==
    (op \in {"run_on_text", "run_on_string"} /\ seen # NoTable) =>
        \A i \in 1..Len(seen.rows) :
            seen.rows[i]["check_requested"]
                = (arg = None \/ seen.rows[i]["paragraph_id"] \in arg[1])

\* C8: with the base analyze-inner, analyze and apply on a valid table raise
\* NotImplementedError, and so does run with the base run-inner; through
\* analyze_dataframe the error reaches the caller and no mapping is returned.
C8_NotImplemented ==
    /\ (op \in {"analyze", "apply"} /\ self.inner = "abstract" /\ ~LacksRequired(self, pre)) =>
          outcome = "NotImplementedError" /\ ret = NoReturn
    /\ (op = "run" /\ self.inner = "abstract" /\ ~LacksRequired(self, pre)) =>
          outcome = "NotImplementedError" /\ ret = NoReturn
    /\ op = "analyze_dataframe" =>
          \A k \in 1..Len(self.analyzers) :
              (/\ self.analyzers[k][2].inner = "abstract"
               /\ ~LacksRequired(self.analyzers[k][2], pre)
               /\ \A j \in 1..(k - 1) : apply(self.analyzers[j][2], pre).outcome = "ok") =>
                  outcome = "NotImplementedError" /\ ret = NoReturn /\ Len(trace) = k

\* C8 witness: analyze_dataframe raised NotImplementedError at its second
\* analyzer, after the first one's apply had succeeded.
C8_Witness ==
    /\ op = "analyze_dataframe"
    /\ outcome = "NotImplementedError"
    /\ Len(trace) = 2
    /\ ret = NoReturn

\* C9 as stated: PyMorphAnalyzer's analyze and apply raise
\* NotImplementedError on a valid table and the validation error on a table
\* lacking a coordinate column, and never return a value.
C9_Claim ==
    (op \in {"analyze", "apply"} /\ self = PyMorphAnalyzer) =>
        /\ outcome = (IF LacksRequired(self, pre) THEN "ValidationError"
                      ELSE "NotImplementedError")
        /\ ret = NoReturn

\* C10: check_requested depends only on the last write: a
\* put_check_requested leaves the column it would leave on the same table
\* without a check_requested column, changes no other column and no row
\* count; and the table run hands to the run-inner step has check_requested
\* true on every row, whatever the column held before.
C10_LastWriteOnly ==
    /\ (op = "put_check_requested" /\ outcome = "ok") =>
          /\ DropColumn(df, "check_requested") = DropColumn(pre, "check_requested")
          /\ df = put_check_requested(DropColumn(pre, "check_requested"), arg).df
    /\ (op = "put_check_requested" /\ outcome # "ok") => df = pre
    /\ (op = "run" /\ seen # NoTable) =>
          /\ DropColumn(seen, "check_requested") = DropColumn(pre, "check_requested")
          /\ \A i \in 1..Len(seen.rows) : seen.rows[i]["check_requested"] = TRUE

\* C10 witness: run reached the run-inner step on a table whose
\* check_requested had been set false on some row by an earlier call.
C10_Witness ==
    /\ op = "run"
    /\ seen # NoTable
    /\ "check_requested" \in pre.cols
    /\ \E i \in 1..Len(pre.rows) : pre.rows[i]["check_requested"] = FALSE

====
